---- MODULE Spec2Model ----
(***************************************************************************)
(* A model of ka2n/ptouchgo: the PackBits-variant run-length compressor    *)
(* (packBits), the raster framing (CompressImage), the status codec        *)
(* (parseStatus), the operations of Serial, the rasterizer (LoadRawImage), *)
(* the driver registry (conn.Register, conn.Open), the command line        *)
(* (mainCLI) and the locking of USBSerial.                                 *)
(*                                                                         *)
(* Bytes are the integers 0..255; a []byte is a sequence of them.  Go's    *)
(* 0-based index i is the 1-based index i+1 here.                          *)
(***************************************************************************)
EXTENDS Integers, Sequences, FiniteSets, TLC

VARIABLES
    input,      \* packBits: the argument
    nsegs,      \* packBits: how many segments the caller put into input
    packed,     \* packBits: the returned dst
    pcPack,     \* packBits: "idle" | "build" | "done"
    data,       \* CompressImage: the argument data
    bytesWidth, \* CompressImage: the argument bytesWidth
    imgI,       \* CompressImage: the loop variable i
    dataBuf,    \* CompressImage: the bytes written to dataBuf so far
    pcImg,      \* CompressImage: "idle" | "input" | "loop" | "done"
    statusIn,   \* parseStatus: the argument in
    statusRes,  \* parseStatus: <<>> before the call, then <<its result>>
    TapeWidthMM,\* Serial.TapeWidthMM
    wire,       \* Serial.Conn: the calls made on it, in order
    rawP,       \* LoadRawImage: the argument p
    rawTape,    \* LoadRawImage: the argument tapeWidth
    rawRes,     \* LoadRawImage: <<>> before the call, then <<its result>>
    drivers,    \* conn: the map drivers, <<>> for a name without an entry
    driversMu,  \* conn: driversMu, its writer (0: none) and its readers
    regPc,      \* conn: where each goroutine stands in Register or Open
    regCall,    \* conn: the arguments and locals of each goroutine's call
    regDone,    \* conn: how each goroutine's call ended, <<>> before
    bindCount,  \* conn: how often drivers[name] was assigned, per name
    pcMain,     \* mainCLI: the statement it stands at
    mainIn,     \* mainCLI: the flags and the prepared image
    mainErr,    \* mainCLI: whether it returned an error
    serConn,    \* mainCLI: ser.Conn, "none" | "open" | "closed"
    usbS,       \* USBSerial: the struct OpenUSB returned a pointer to
    usbPc,      \* USBSerial: where each goroutine stands in Write or Read
    usbRecv,    \* USBSerial: each goroutine's receiver s, a copy of usbS
    address,    \* OpenUSB: the argument address, a sequence of characters
    pcOpenUSB,  \* OpenUSB: the statement it stands at
    usbRes,     \* OpenUSB: ctx, dev and done, each "nil" | "open" | "closed"
    usbPid,     \* OpenUSB: the product id handed to OpenDeviceWithVIDPID
    released,   \* OpenUSB: the resources released so far, in order
    openRet     \* OpenUSB: <<>> while it runs, then <<how it ended>>

packVars == <<input, nsegs, packed, pcPack>>
imgVars == <<data, bytesWidth, imgI, dataBuf, pcImg>>
statusVars == <<statusIn, statusRes>>
serialVars == <<TapeWidthMM, wire>>
rawVars == <<rawP, rawTape, rawRes>>
regVars == <<drivers, driversMu, regPc, regCall, regDone, bindCount>>
mainVars == <<pcMain, mainIn, mainErr, serConn>>
usbVars == <<usbS, usbPc, usbRecv>>
openVars == <<address, pcOpenUSB, usbRes, usbPid, released, openRet>>
vars == <<packVars, imgVars, statusVars, serialVars, rawVars, regVars, mainVars,
          usbVars, openVars>>

\* What an action of one component leaves alone: the other components.
exceptPack == <<imgVars, statusVars, serialVars, rawVars, regVars, mainVars,
    usbVars, openVars>>
exceptImage == <<packVars, statusVars, serialVars, rawVars, regVars, mainVars,
    usbVars, openVars>>
exceptStatus == <<packVars, imgVars, serialVars, rawVars, regVars, mainVars,
    usbVars, openVars>>
exceptSerial == <<packVars, imgVars, statusVars, rawVars, regVars, mainVars,
    usbVars, openVars>>
exceptRaw == <<packVars, imgVars, statusVars, serialVars, regVars, mainVars,
    usbVars, openVars>>
exceptReg == <<packVars, imgVars, statusVars, serialVars, rawVars, mainVars,
    usbVars, openVars>>
exceptMain == <<packVars, imgVars, statusVars, rawVars, regVars, usbVars,
    openVars>>
exceptUSB == <<packVars, imgVars, statusVars, serialVars, rawVars, regVars,
    mainVars, openVars>>
exceptOpen == <<packVars, imgVars, statusVars, serialVars, rawVars, regVars,
    mainVars, usbVars>>

(***************************************************************************)
(* Bounds of the model and the inputs drawn.                               *)
(***************************************************************************)
MaxSegs == 2

\* Byte values the inputs are built from; both are also control bytes.
Vals == {0, 255}

\* Go's conversion byte(n) of an int n: the low 8 bits.
byte(n) == n % 256

(***************************************************************************)
(* packBits, src/unnamed/part_002.                                         *)
(***************************************************************************)
maxRepeats == 127

\* Lengths of the uniform and of the alternating segments an input is built
\* from: short ones, the ones around maxRepeats, and 73 (= 200 - 127).
RunLens == {1, 2, 3, 73, maxRepeats - 1, maxRepeats, maxRepeats + 1}
AltLens == {2, 3, maxRepeats - 1, maxRepeats, maxRepeats + 1, maxRepeats + 2}

\* The locals of packBits before the loop: buf, dst, rle, repeats.
packInit == [buf |-> <<>>, dst |-> <<>>, rle |-> FALSE, repeats |-> 0]

\* buf.WriteByte(b)
WriteByte(st, b) == [st EXCEPT !.buf = Append(st.buf, b)]

\* A slip a literal flush could have: the control byte is the length itself.
finishRawLenControl(st) ==
    IF Len(st.buf) = 0
    THEN st
    ELSE [st EXCEPT !.dst = st.dst \o <<byte(Len(st.buf))>> \o st.buf,
                    !.buf = <<>>]

finishRaw(st) ==
    IF Len(st.buf) = 0
    THEN st
    ELSE [st EXCEPT !.dst = st.dst \o <<byte(Len(st.buf) - 1)>> \o st.buf,
                    !.buf = <<>>]

\* A slip a repeat flush could have: the control byte is 256 - repeats.
finishRleOffByOne(st, b, repeats) ==
    [st EXCEPT !.dst = st.dst \o <<byte(256 - repeats), b>>]

finishRle(st, b, repeats) ==
    [st EXCEPT !.dst = st.dst \o <<byte(256 - (repeats - 1)), b>>]

\* A slip the repeat branch could have: the run is never split at maxRepeats.
rleContinueNoSplit(st, b) ==
    [st EXCEPT !.repeats = st.repeats + 1]

\* The branch b == input[i+1] while rle is set (lines 46-50).
rleContinue(st, b) ==
    LET s1 == IF st.repeats = maxRepeats
              THEN [finishRle(st, b, st.repeats) EXCEPT !.repeats = 0]
              ELSE st
    IN [s1 EXCEPT !.repeats = s1.repeats + 1]

\* One iteration of the loop, for Go's index i-1.
packStep(st, in, i) ==
    LET b == in[i]
        isLast == i = Len(in)
    IN IF isLast
       THEN IF ~st.rle
            THEN finishRaw(WriteByte(st, b))
            ELSE finishRle([st EXCEPT !.repeats = st.repeats + 1], b,
                           st.repeats + 1)
       ELSE IF b = in[i + 1]
            THEN IF ~st.rle
                 THEN [finishRaw(st) EXCEPT !.rle = TRUE, !.repeats = 1]
                 ELSE rleContinue(st, b)
            ELSE IF ~st.rle
                 THEN WriteByte(IF Len(st.buf) = maxRepeats
                                THEN finishRaw(st) ELSE st, b)
                 ELSE [finishRle(st, b, st.repeats + 1)
                          EXCEPT !.rle = FALSE, !.repeats = 0]

\* The loop over input[lo-1 .. hi-1], split in halves so that the evaluation
\* nests only logarithmically deep; the test on left makes the left half's
\* state a value before the right half starts from it.
RECURSIVE packLoop(_, _, _, _)
packLoop(st, in, lo, hi) ==
    IF lo > hi THEN st
    ELSE IF lo = hi THEN packStep(st, in, lo)
    ELSE LET mid == (lo + hi) \div 2
             left == packLoop(st, in, lo, mid)
         IN IF left.repeats >= 0
            THEN packLoop(left, in, mid + 1, hi)
            ELSE left

packBits(in) == packLoop(packInit, in, 1, Len(in)).dst

(***************************************************************************)
(* The callers of packBits: an input is built from segments, then packed.  *)
(***************************************************************************)
InitPack ==
    /\ input = <<>>
    /\ nsegs = 0
    /\ packed = <<>>
    /\ pcPack = "build"

AppendRun ==
    /\ pcPack = "build"
    /\ nsegs < MaxSegs
    /\ \E v \in Vals, n \in RunLens :
          input' = input \o [k \in 1..n |-> v]
    /\ nsegs' = nsegs + 1
    /\ UNCHANGED <<packed, pcPack>>
    /\ UNCHANGED exceptPack

AppendAlt ==
    /\ pcPack = "build"
    /\ nsegs < MaxSegs
    /\ \E v \in Vals, w \in Vals, n \in AltLens :
          /\ v # w
          /\ input' = input \o [k \in 1..n |-> IF k % 2 = 1 THEN v ELSE w]
    /\ nsegs' = nsegs + 1
    /\ UNCHANGED <<packed, pcPack>>
    /\ UNCHANGED exceptPack

Pack ==
    /\ pcPack = "build"
    /\ packed' = packBits(input)
    /\ pcPack' = "done"
    /\ UNCHANGED <<input, nsegs>>
    /\ UNCHANGED exceptPack

IdlePack ==
    /\ input = <<>>
    /\ nsegs = 0
    /\ packed = <<>>
    /\ pcPack = "idle"

(***************************************************************************)
(* CompressImage, src/conn/usb/conn.go 697-729: one action per iteration   *)
(* of its loop.                                                            *)
(***************************************************************************)
MaxData == 4
MaxWidth == 3

cmdRasterTransfer == <<119>>                      \* 0x77

Min(a, b) == IF a < b THEN a ELSE b

\* The frame one iteration writes to dataBuf for the row chunk. packBits is
\* called on the chunk and only the length of its result is printed: the
\* bytes written after the three header bytes are the chunk itself.
rasterFrame(chunk, width) ==
    cmdRasterTransfer \o <<2, byte(width)>> \o chunk

\* The iterations the loop has made so far, and how many the model follows
\* it for: more than any data drawn has bytes, so that the limit is only met
\* by a loop that does not advance.
loopCount ==
    IF bytesWidth = 0 THEN Len(dataBuf) \div 3 ELSE imgI \div bytesWidth

MaxIter == MaxData + 2

InitImage ==
    /\ data = <<>>
    /\ bytesWidth \in 0..MaxWidth
    /\ imgI = 0
    /\ dataBuf = <<>>
    /\ pcImg = "input"

IdleImage ==
    /\ data = <<>>
    /\ bytesWidth = 1
    /\ imgI = 0
    /\ dataBuf = <<>>
    /\ pcImg = "idle"

\* The caller's raster buffer, byte by byte.
AppendData ==
    /\ pcImg = "input"
    /\ Len(data) < MaxData
    /\ \E v \in Vals : data' = Append(data, v)
    /\ UNCHANGED <<bytesWidth, imgI, dataBuf, pcImg>>
    /\ UNCHANGED exceptImage

\* Entry: var dataBuf bytes.Buffer; max := len(data); i := 0.
CompressStart ==
    /\ pcImg = "input"
    /\ imgI' = 0
    /\ dataBuf' = <<>>
    /\ pcImg' = "loop"
    /\ UNCHANGED <<data, bytesWidth>>
    /\ UNCHANGED exceptImage

\* One iteration: i < max.
CompressRow ==
    /\ pcImg = "loop"
    /\ imgI < Len(data)
    /\ loopCount < MaxIter
    /\ LET to == Min(imgI + bytesWidth, Len(data))
           chunk == SubSeq(data, imgI + 1, to)
       IN dataBuf' = dataBuf \o rasterFrame(chunk, bytesWidth)
    /\ imgI' = imgI + bytesWidth
    /\ UNCHANGED <<data, bytesWidth, pcImg>>
    /\ UNCHANGED exceptImage

\* Loop exit: return dataBuf.Bytes(), nil.
CompressReturn ==
    /\ pcImg = "loop"
    /\ imgI >= Len(data)
    /\ pcImg' = "done"
    /\ UNCHANGED <<data, bytesWidth, imgI, dataBuf>>
    /\ UNCHANGED exceptImage

(***************************************************************************)
(* parseStatus, src/conn/usb/conn.go 731-753.                              *)
(***************************************************************************)
statusOffsetModel == 4
statusOffsetBattery == 6
statusOffsetErrorInfo1 == 8
statusOffsetErrorInfo2 == 9
statusOffsetMediaWidth == 10
statusOffsetMediaType == 11
statusOffsetMode == 15
statusOffsetTapeLength == 17
statusOffsetStatusType == 18
statusOffsetPhaseType == 19
statusOffsetPhaseNumber == 20
statusOffsetNotification == 22
statusOffsetTapeColor == 24
statusOffsetFontColor == 25

statusTypeReply == 0
batteryFull == 0

MaxPokes == 2

\* Lengths of the buffers handed to parseStatus, and the non-zero values
\* put into them: 1 is a documented code of most fields, 255 of few.
FrameLens == {0, 31, 32, 33}
PokeVals == {1, 255}

\* in[off] for Go's 0-based offset off.
at(in, off) == in[off + 1]

\* A slip of the length test: a frame of at least 32 bytes is accepted.
frameLengthOKAtLeast(in) == Len(in) >= 32

\* len(in) != 32 is the failure.
frameLengthOK(in) == Len(in) = 32

\* A slip of the field table: Battery is read at the offset of the model.
statusFieldsBatteryAtModel(in) ==
    [Type         |-> at(in, statusOffsetStatusType),
     Model        |-> at(in, statusOffsetModel),
     Battery      |-> at(in, statusOffsetModel),
     Error1       |-> at(in, statusOffsetErrorInfo1),
     Error2       |-> at(in, statusOffsetErrorInfo2),
     Mode         |-> at(in, statusOffsetMode),
     StatusType   |-> at(in, statusOffsetStatusType),
     PhaseType    |-> at(in, statusOffsetPhaseType),
     Phase        |-> at(in, statusOffsetPhaseNumber),
     Notification |-> at(in, statusOffsetNotification),
     MediaType    |-> at(in, statusOffsetMediaType),
     TapeColor    |-> at(in, statusOffsetTapeColor),
     TapeLength   |-> at(in, statusOffsetTapeLength),
     TapeWidth    |-> at(in, statusOffsetMediaWidth),
     FontColor    |-> at(in, statusOffsetFontColor)]

\* The Status literal of lines 736-752: each field is the conversion of one
\* byte (0..255) to an int type, which keeps its value.
statusFields(in) ==
    [Type         |-> at(in, statusOffsetStatusType),
     Model        |-> at(in, statusOffsetModel),
     Battery      |-> at(in, statusOffsetBattery),
     Error1       |-> at(in, statusOffsetErrorInfo1),
     Error2       |-> at(in, statusOffsetErrorInfo2),
     Mode         |-> at(in, statusOffsetMode),
     StatusType   |-> at(in, statusOffsetStatusType),
     PhaseType    |-> at(in, statusOffsetPhaseType),
     Phase        |-> at(in, statusOffsetPhaseNumber),
     Notification |-> at(in, statusOffsetNotification),
     MediaType    |-> at(in, statusOffsetMediaType),
     TapeColor    |-> at(in, statusOffsetTapeColor),
     TapeLength   |-> at(in, statusOffsetTapeLength),
     TapeWidth    |-> at(in, statusOffsetMediaWidth),
     FontColor    |-> at(in, statusOffsetFontColor)]

\* The pair (*Status, error): status is <<>> for nil and <<s>> for &s, err
\* is <<>> for nil and <<e>> for the error e.
parseStatus(in) ==
    IF ~frameLengthOK(in)
    THEN [status |-> <<>>,
          err |-> <<[msg |-> "status must be 32 bytes", got |-> Len(in)]>>]
    ELSE [status |-> <<statusFields(in)>>, err |-> <<>>]

InitStatus ==
    /\ statusIn \in {[k \in 1..n |-> 0] : n \in FrameLens}
    /\ statusRes = <<>>

IdleStatus ==
    /\ statusIn = <<>>
    /\ statusRes = <<>>

\* The device (or the caller) fills one more byte of the buffer.
Poke ==
    /\ statusRes = <<>>
    /\ Cardinality({k \in 1..Len(statusIn) : statusIn[k] # 0}) < MaxPokes
    /\ \E k \in 1..Len(statusIn), v \in PokeVals :
          /\ statusIn[k] = 0
          /\ statusIn' = [statusIn EXCEPT ![k] = v]
    /\ UNCHANGED statusRes
    /\ UNCHANGED exceptStatus

ParseStatus ==
    /\ statusRes = <<>>
    /\ statusRes' = <<parseStatus(statusIn)>>
    /\ UNCHANGED statusIn
    /\ UNCHANGED exceptStatus

(***************************************************************************)
(* Serial and its command builders, src/conn/usb/conn.go 363-652.          *)
(***************************************************************************)
cmdSetPrintPropertyPrefix == <<27, 105, 122>>     \* 0x1b 0x69 0x7a
cmdSetFeedAmountPrefix == <<27, 105, 100>>        \* 0x1b 0x69 0x64

printPropertyEnableBitMedia == 2
printPropertyEnableBitWidth == 4
printPropertyEnableBitLength == 8
printPropertyEnableBitQuality == 64
printPropertyEnableBitRecoverOnDevice == 128

MaxWrites == 2

\* Tape widths the CLI accepts, raster line counts and feed amounts drawn.
\* A line count stays below 2^31, the largest integer TLC computes with.
TapeWidths == {4, 6, 9, 12, 18, 24}
RasterLineSet == {0, 1, 255, 256, 600, 65535, 65536, 16777215, 16777216,
                  16909060, 2147483647}
FeedAmountSet == {0, 1, 10, 255, 256, 300, 65535}

\* Go's a | b on non-negative ints.
RECURSIVE BitOr(_, _)
BitOr(a, b) ==
    IF a = 0 THEN b
    ELSE IF b = 0 THEN a
    ELSE (IF a % 2 = 1 \/ b % 2 = 1 THEN 1 ELSE 0)
         + 2 * BitOr(a \div 2, b \div 2)

\* A slip: the unused quality bit is switched on too.
enableFlagWithQuality ==
    BitOr(BitOr(BitOr(BitOr(BitOr(0, printPropertyEnableBitRecoverOnDevice),
                            printPropertyEnableBitWidth),
                      printPropertyEnableBitLength),
                printPropertyEnableBitMedia),
          printPropertyEnableBitQuality)

\* enableFlag after its four |= (lines 494, 498, 501, 513).
enableFlag ==
    BitOr(BitOr(BitOr(BitOr(0, printPropertyEnableBitRecoverOnDevice),
                      printPropertyEnableBitWidth),
                printPropertyEnableBitLength),
          printPropertyEnableBitMedia)

\* A slip: the line count most-significant byte first.
rasterNumBigEndian(r) ==
    <<byte(r \div (256 * 256 * 256)),
      byte((r % (256 * 256 * 256)) \div (256 * 256)),
      byte(((r % (256 * 256 * 256)) % (256 * 256)) \div 256),
      byte(r % 256)>>

\* <<rasterNumN1, rasterNumN2, rasterNumN3, rasterNumN4>> (lines 505-509).
rasterNum(r) ==
    <<byte(r % 256),
      byte(((r % (256 * 256 * 256)) % (256 * 256)) \div 256),
      byte((r % (256 * 256 * 256)) \div (256 * 256)),
      byte(r \div (256 * 256 * 256))>>

\* The data SetPrintProperty hands to Conn.Write: mediaType 0x0A, tapeWidth
\* byte(uint(62)), tapeLength 0, page 0, eeprom 0.
printPropertyData(rasterLines) ==
    cmdSetPrintPropertyPrefix
    \o <<byte(enableFlag), 10, byte(62), byte(0)>>
    \o rasterNum(rasterLines)
    \o <<0, 0>>

\* A slip: the two count bytes most-significant first.
feedAmountBytesBigEndian(amount) ==
    <<byte(amount \div 256), byte(amount % 256)>>

\* <<n1, n2>> (lines 583-584).
feedAmountBytes(amount) ==
    <<byte(amount % 256), byte(amount \div 256)>>

feedAmountPayload(amount) ==
    cmdSetFeedAmountPrefix \o feedAmountBytes(amount)

\* Open: Serial{Conn: ser, TapeWidthMM: TapeWidthMM}, nothing written yet.
InitSerial ==
    /\ TapeWidthMM \in TapeWidths
    /\ wire = <<>>

IdleSerial ==
    /\ TapeWidthMM = 0
    /\ wire = <<>>

\* The stream after one call of s.Conn.Write(payload) by operation op with
\* argument arg; the stream decides whether the call fails (err), and the
\* operation returns that error to its caller (ret: whether the operation
\* returned an error).
connWrite(w, op, arg, payload, failed) ==
    Append(w, [op |-> op, call |-> "Write", arg |-> arg, payload |-> payload,
               err |-> failed, ret |-> failed])

SetPrintProperty ==
    /\ Len(wire) < MaxWrites
    /\ \E rasterLines \in RasterLineSet, failed \in BOOLEAN :
          wire' = connWrite(wire, "SetPrintProperty", rasterLines,
                            printPropertyData(rasterLines), failed)
    /\ UNCHANGED <<TapeWidthMM, exceptSerial>>

SetFeedAmount ==
    /\ Len(wire) < MaxWrites
    /\ \E amount \in FeedAmountSet, failed \in BOOLEAN :
          wire' = connWrite(wire, "SetFeedAmount", amount,
                            feedAmountPayload(amount), failed)
    /\ UNCHANGED <<TapeWidthMM, exceptSerial>>

cmdSetPrintModePrefix == <<27, 105, 77>>         \* 0x1b 0x69 0x4d
cmdSetExtendedModePrefix == <<27, 105, 75>>      \* 0x1b 0x69 0x4b

\* n |= (1 << pos); return n
setBit(n, pos) == BitOr(n, 2 ^ pos)

\* v of SetPrintMode before byte(v): bit 6 for autocut; the two lines that
\* would set bit 7 for mirror are commented out in the source, so mirror is
\* not read.
printModeFlag(autocut, mirror) ==
    IF autocut THEN setBit(0, 6) ELSE 0

\* v of SetExtendedMode before byte(v): bits 0, 3 and 6.
extendedModeFlag(twoColorPrinting, cutAtEnd, highDefinitionPrinting) ==
    LET v1 == IF twoColorPrinting THEN setBit(0, 0) ELSE 0
        v2 == IF cutAtEnd THEN setBit(v1, 3) ELSE v1
    IN IF highDefinitionPrinting THEN setBit(v2, 6) ELSE v2

SetPrintMode ==
    /\ Len(wire) < MaxWrites
    /\ \E autocut \in BOOLEAN, mirror \in BOOLEAN, failed \in BOOLEAN :
          wire' = connWrite(wire, "SetPrintMode",
                            [autocut |-> autocut, mirror |-> mirror],
                            cmdSetPrintModePrefix
                            \o <<byte(printModeFlag(autocut, mirror))>>,
                            failed)
    /\ UNCHANGED <<TapeWidthMM, exceptSerial>>

SetExtendedMode ==
    /\ Len(wire) < MaxWrites
    /\ \E twoColorPrinting \in BOOLEAN, cutAtEnd \in BOOLEAN,
          highDefinitionPrinting \in BOOLEAN, failed \in BOOLEAN :
          wire' = connWrite(wire, "SetExtendedMode",
                            [twoColorPrinting |-> twoColorPrinting,
                             cutAtEnd |-> cutAtEnd,
                             highDefinitionPrinting |-> highDefinitionPrinting],
                            cmdSetExtendedModePrefix
                            \o <<byte(extendedModeFlag(twoColorPrinting,
                                        cutAtEnd, highDefinitionPrinting))>>,
                            failed)
    /\ UNCHANGED <<TapeWidthMM, exceptSerial>>

(***************************************************************************)
(* LoadRawImage, src/conn/usb/conn.go 662-695.  An image.Image is its size *)
(* and its pixels At(x, y), each a colour <<R, G, B, A>> of 8-bit          *)
(* non-premultiplied channels (color.NRGBA, what the imaging package hands *)
(* back).  A canvas is a source image seen through FlipH or Transpose.     *)
(***************************************************************************)
ws == 720

MaxSide == 2

\* The colours drawn: black, white, the two greys around the threshold,
\* the primaries, and a white of alpha 100.
Palette ==
    << <<0, 0, 0, 255>>, <<255, 255, 255, 255>>, <<127, 127, 127, 255>>,
       <<128, 128, 128, 255>>, <<255, 0, 0, 255>>, <<0, 255, 0, 255>>,
       <<0, 0, 255, 255>>, <<255, 255, 255, 100>> >>

Patterns == {"black", "white", "mixed"}

\* The images drawn: every size with sides in 1..MaxSide, 8, 9 or ws in each
\* of the patterns, and 720x100, 100x720 and 720x720 in the mixed pattern.
SmallSides == (1..MaxSide) \cup {8, 9}
RasterTapes == {12, 24}

RawInputs ==
    {[p |-> [X |-> w, Y |-> h, pat |-> pat], tapeWidth |-> t] :
        w \in SmallSides \cup {ws}, h \in SmallSides, pat \in Patterns,
        t \in RasterTapes}
    \cup {[p |-> [X |-> w, Y |-> ws, pat |-> pat], tapeWidth |-> t] :
        w \in SmallSides, pat \in Patterns, t \in RasterTapes}
    \cup {[p |-> [X |-> sz[1], Y |-> sz[2], pat |-> "mixed"], tapeWidth |-> 24] :
        sz \in {<<ws, 100>>, <<100, ws>>, <<ws, ws>>}}

\* p.At(x, y)
At(p, x, y) ==
    IF p.pat = "black" THEN Palette[1]
    ELSE IF p.pat = "white" THEN Palette[2]
    ELSE Palette[((x + 3 * y) % 8) + 1]

\* imaging.FlipH(p) and imaging.Transpose(p): the size of the canvas and
\* its pixel at (x, y).
canvasSize(p, op) ==
    IF op = "FlipH" THEN [X |-> p.X, Y |-> p.Y] ELSE [X |-> p.Y, Y |-> p.X]

canvasAt(p, op, x, y) ==
    IF op = "FlipH" THEN At(p, p.X - 1 - x, y) ELSE At(p, y, x)

\* color.NRGBA.RGBA(): 16-bit alpha-premultiplied channels.
RGBA(c) ==
    [r |-> (c[1] * 257 * c[4]) \div 255,
     g |-> (c[2] * 257 * c[4]) \div 255,
     b |-> (c[3] * 257 * c[4]) \div 255]

\* lightness <= 0.5, with lightness the quotient of the two integers; both
\* sides of the division are below 2^53, so the test is the exact one.
lightnessAtMostHalf(c) ==
    LET q == RGBA(c)
    IN 2 * (55 * q.r + 182 * q.g + 18 * q.b) <= 65535 * (55 + 182 + 18)

\* A slip: the height is tested before the width.
orientHeightFirst(p) ==
    IF p.Y = ws THEN "Transpose"
    ELSE IF p.X = ws THEN "FlipH"
    ELSE "none"

\* The branch taken at lines 667-673.
orient(p) ==
    IF p.X = ws THEN "FlipH"
    ELSE IF p.Y = ws THEN "Transpose"
    ELSE "none"

\* A slip: the first pixel of a byte in its lowest bit.
pixelMaskLsbFirst(x) == 2 ^ (x % 8)

\* 0x80 >> uint(x%8)
pixelMask(x) == 128 \div (2 ^ (x % 8))

\* What the x loop ORs into data[y*bytesWidth + bx]: the masks of the dark
\* pixels x with x/8 = bx (the masks of one byte are distinct bits, so the
\* OR is the sum).
RECURSIVE dataByte(_, _, _, _, _, _)
dataByte(p, op, width, y, bx, j) ==
    IF j = 8 THEN 0
    ELSE (IF 8 * bx + j < width
             /\ lightnessAtMostHalf(canvasAt(p, op, 8 * bx + j, y))
          THEN pixelMask(8 * bx + j) ELSE 0)
         + dataByte(p, op, width, y, bx, j + 1)

LoadRawImageResult(p, tapeWidth) ==
    LET op == orient(p)
        size == canvasSize(p, op)
        bytesWidth0 == IF size.X % 8 # 0 THEN size.X \div 8 + 1
                       ELSE size.X \div 8
    IN IF op = "none"
       THEN [canvas |-> "none", data |-> <<>>, bytesWidth |-> 0,
             err |-> <<[ws |-> ws, tapeWidth |-> tapeWidth,
                        X |-> p.X, Y |-> p.Y]>>]
       ELSE [canvas |-> op,
             data |-> [k \in 1..(bytesWidth0 * size.Y) |->
                          dataByte(p, op, size.X, (k - 1) \div bytesWidth0,
                                   (k - 1) % bytesWidth0, 0)],
             bytesWidth |-> bytesWidth0,
             err |-> <<>>]

InitRaw ==
    /\ \E in \in RawInputs : rawP = in.p /\ rawTape = in.tapeWidth
    /\ rawRes = <<>>

IdleRaw ==
    /\ rawP = [X |-> 0, Y |-> 0, pat |-> "black"]
    /\ rawTape = 0
    /\ rawRes = <<>>

LoadRawImage ==
    /\ rawRes = <<>>
    /\ rawRes' = <<LoadRawImageResult(rawP, rawTape)>>
    /\ UNCHANGED <<rawP, rawTape, exceptRaw>>

(***************************************************************************)
(* The other operations of Serial, src/conn/usb/conn.go 417-481, 596-652.  *)
(***************************************************************************)
cmdInitialize == <<27, 64>>                      \* 0x1b 0x40
cmdDumpStatus == <<27, 105, 83>>                 \* 0x1b 0x69 0x53
cmdSetRasterMode == <<27, 105, 97, 1>>           \* 0x1b 0x69 0x61 0x01
cmdNotifyModePrefix == <<27, 105, 33>>           \* 0x1b 0x69 0x21
cmdSetAutcutPrefix == <<27, 105, 65>>            \* 0x1b 0x69 0x41
cmdSetCompressionModePrefix == <<77>>            \* 0x4d
cmdPrint == <<12>>                               \* 0x0c
cmdPrintAndEject == <<26>>                       \* 0x1a

\* make([]byte, n)
make(n) == [k \in 1..n |-> 0]

\* What the stream may deliver to one Read into a 32-byte buffer: a status
\* frame, of which the first n bytes arrive.
StatusFrame == [k \in 1..32 |-> (k * 7) % 256]
ReadCounts == {0, 16, 32}
PageCounts == {0, 1, 300}
ImageSamples == {rasterFrame(<<0>>, 1), rasterFrame(<<255, 0>>, 2)}

ClearBuffer ==
    /\ Len(wire) < MaxWrites
    /\ \E failed \in BOOLEAN :
          wire' = connWrite(wire, "ClearBuffer", 0, make(100), failed)
    /\ UNCHANGED <<TapeWidthMM, exceptSerial>>

Initialize ==
    /\ Len(wire) < MaxWrites
    /\ \E failed \in BOOLEAN :
          wire' = connWrite(wire, "Initialize", 0, cmdInitialize, failed)
    /\ UNCHANGED <<TapeWidthMM, exceptSerial>>

RequestStatus ==
    /\ Len(wire) < MaxWrites
    /\ \E failed \in BOOLEAN :
          wire' = connWrite(wire, "RequestStatus", 0, cmdDumpStatus, failed)
    /\ UNCHANGED <<TapeWidthMM, exceptSerial>>

\* buf := make([]byte, 32); s.Conn.Read(buf); return parseStatus(buf).
\* Both results of Read are dropped: the entry keeps whether the stream
\* failed (err) and what ReadStatus returned (status, ret).
ReadStatus ==
    /\ Len(wire) < MaxWrites
    /\ \E n \in ReadCounts, failed \in BOOLEAN :
          LET buf == [k \in 1..32 |-> IF k <= n THEN StatusFrame[k]
                                      ELSE make(32)[k]]
              res == parseStatus(buf)
          IN wire' = Append(wire, [op |-> "ReadStatus", call |-> "Read",
                                   arg |-> n, payload |-> buf,
                                   err |-> failed, ret |-> res.err # <<>>,
                                   status |-> res.status])
    /\ UNCHANGED <<TapeWidthMM, exceptSerial>>

SetRasterMode ==
    /\ Len(wire) < MaxWrites
    /\ \E failed \in BOOLEAN :
          wire' = connWrite(wire, "SetRasterMode", 0, cmdSetRasterMode, failed)
    /\ UNCHANGED <<TapeWidthMM, exceptSerial>>

SetNotificationMode ==
    /\ Len(wire) < MaxWrites
    /\ \E on \in BOOLEAN, failed \in BOOLEAN :
          wire' = connWrite(wire, "SetNotificationMode", on,
                            cmdNotifyModePrefix \o <<IF on THEN 0 ELSE 1>>,
                            failed)
    /\ UNCHANGED <<TapeWidthMM, exceptSerial>>

SetAutocutPerPagesForPTP750W ==
    /\ Len(wire) < MaxWrites
    /\ \E pages \in PageCounts, failed \in BOOLEAN :
          wire' = connWrite(wire, "SetAutocutPerPagesForPTP750W", pages,
                            cmdSetAutcutPrefix
                            \o <<byte(IF pages = 0 THEN 1 ELSE pages)>>,
                            failed)
    /\ UNCHANGED <<TapeWidthMM, exceptSerial>>

compressionModePayload(enabled) ==
    cmdSetCompressionModePrefix \o <<IF enabled THEN 2 ELSE 0>>

SetCompressionModeEnabled ==
    /\ Len(wire) < MaxWrites
    /\ \E enabled \in BOOLEAN, failed \in BOOLEAN :
          wire' = connWrite(wire, "SetCompressionModeEnabled", enabled,
                            compressionModePayload(enabled), failed)
    /\ UNCHANGED <<TapeWidthMM, exceptSerial>>

SendImage ==
    /\ Len(wire) < MaxWrites
    /\ \E tiffdata \in ImageSamples, failed \in BOOLEAN :
          wire' = connWrite(wire, "SendImage", Len(tiffdata), tiffdata, failed)
    /\ UNCHANGED <<TapeWidthMM, exceptSerial>>

\* Serial.Print (the name Print is taken by the TLC module).
SerialPrint ==
    /\ Len(wire) < MaxWrites
    /\ \E failed \in BOOLEAN :
          wire' = connWrite(wire, "Print", 0, cmdPrint, failed)
    /\ UNCHANGED <<TapeWidthMM, exceptSerial>>

PrintAndEject ==
    /\ Len(wire) < MaxWrites
    /\ \E failed \in BOOLEAN :
          wire' = connWrite(wire, "PrintAndEject", 0, cmdPrintAndEject, failed)
    /\ UNCHANGED <<TapeWidthMM, exceptSerial>>

\* return s.Conn.Close()
connClose(w, failed) ==
    Append(w, [op |-> "Close", call |-> "Close", arg |-> 0, payload |-> <<>>,
               err |-> failed, ret |-> failed])

Close ==
    /\ Len(wire) < MaxWrites
    /\ \E failed \in BOOLEAN : wire' = connClose(wire, failed)
    /\ UNCHANGED <<TapeWidthMM, exceptSerial>>

\* A session opened with the default tape width of the command line.
InitSession ==
    /\ TapeWidthMM = 24
    /\ wire = <<>>

(***************************************************************************)
(* The driver registry, src/conn/conn.go.  Goroutines 1..MaxProcs each     *)
(* make one call, Register(name, driver) or Open(name, address), one       *)
(* statement at a time.  A driver is <<>> (nil) or <<d>>; the drivers that *)
(* init() registered are "openSerial" and "openTCP", and goroutine t       *)
(* registers the driver t.                                                 *)
(***************************************************************************)
MaxProcs == 2

Procs == 1..MaxProcs
DriverNames == {"serial", "tcp", "usb", "bt"}
CallNames == {"serial", "usb"}

\* driversMu.Lock() and driversMu.RLock() can return.
canLockAlways(mu) == TRUE

canLock(mu) == mu.writer = 0 /\ mu.readers = {}

canRLock(mu) == mu.writer = 0

\* After init(): "serial" and "tcp" are registered, nobody holds the lock.
InitReg ==
    /\ drivers = [n \in DriverNames |->
                    IF n = "serial" THEN <<"openSerial">>
                    ELSE IF n = "tcp" THEN <<"openTCP">>
                    ELSE <<>>]
    /\ bindCount = [n \in DriverNames |->
                      IF n \in {"serial", "tcp"} THEN 1 ELSE 0]
    /\ driversMu = [writer |-> 0, readers |-> {}]
    /\ regPc = [t \in Procs |-> "idle"]
    /\ regCall = [t \in Procs |-> <<>>]
    /\ regDone = [t \in Procs |-> <<>>]

IdleReg ==
    /\ drivers = <<>>
    /\ bindCount = <<>>
    /\ driversMu = [writer |-> 0, readers |-> {}]
    /\ regPc = <<>>
    /\ regCall = <<>>
    /\ regDone = <<>>

\* A goroutine calls Register(name, driver).
RegisterCall ==
    \E t \in Procs, name \in CallNames, isNil \in BOOLEAN :
        /\ regPc[t] = "idle"
        /\ regDone[t] = <<>>
        /\ LET driver == IF isNil THEN <<>> ELSE <<t>> IN
           regCall' = [regCall EXCEPT ![t] =
                          [op |-> "Register", name |-> name, driver |-> driver,
                           before |-> <<>>, panicked |-> FALSE]]
        /\ regPc' = [regPc EXCEPT ![t] = "Lock"]
        /\ UNCHANGED <<drivers, driversMu, regDone, bindCount, exceptReg>>

\* driversMu.Lock(); defer driversMu.Unlock()
RegisterLock ==
    \E t \in Procs :
        /\ regPc[t] = "Lock"
        /\ canLock(driversMu)
        /\ driversMu' = [driversMu EXCEPT !.writer = t]
        /\ regPc' = [regPc EXCEPT ![t] = "check"]
        /\ UNCHANGED <<drivers, regCall, regDone, bindCount, exceptReg>>

\* The two tests of lines 28-33: a nil driver or a name with an entry panics.
RegisterCheck ==
    \E t \in Procs :
        /\ regPc[t] = "check"
        /\ LET c == regCall[t]
               dup == drivers[c.name] # <<>>
               bad == c.driver = <<>> \/ dup
           IN /\ regCall' = [regCall EXCEPT ![t] =
                                [c EXCEPT !.before = <<drivers[c.name]>>,
                                          !.panicked = bad]]
              /\ regPc' = [regPc EXCEPT ![t] =
                              IF bad THEN "Unlock" ELSE "assign"]
        /\ UNCHANGED <<drivers, driversMu, regDone, bindCount, exceptReg>>

\* drivers[name] = driver
RegisterAssign ==
    \E t \in Procs :
        /\ regPc[t] = "assign"
        /\ drivers' = [drivers EXCEPT ![regCall[t].name] = regCall[t].driver]
        /\ bindCount' = [bindCount EXCEPT ![regCall[t].name] = @ + 1]
        /\ regPc' = [regPc EXCEPT ![t] = "Unlock"]
        /\ UNCHANGED <<driversMu, regCall, regDone, exceptReg>>

\* The deferred driversMu.Unlock(), on return and on panic alike.
RegisterUnlock ==
    \E t \in Procs :
        /\ regPc[t] = "Unlock"
        /\ driversMu' = [driversMu EXCEPT !.writer = 0]
        /\ regDone' = [regDone EXCEPT ![t] =
                          <<[op |-> "Register", name |-> regCall[t].name,
                             driver |-> regCall[t].driver,
                             before |-> regCall[t].before[1],
                             after |-> drivers[regCall[t].name],
                             outcome |-> IF regCall[t].panicked THEN "panic"
                                         ELSE "ok",
                             invoked |-> <<>>]>>]
        /\ regPc' = [regPc EXCEPT ![t] = "idle"]
        /\ UNCHANGED <<drivers, regCall, bindCount, exceptReg>>

\* A goroutine calls Open(name, address).
OpenCall ==
    \E t \in Procs, name \in CallNames :
        /\ regPc[t] = "idle"
        /\ regDone[t] = <<>>
        /\ regCall' = [regCall EXCEPT ![t] =
                          [op |-> "Open", name |-> name, driver |-> <<>>,
                           before |-> <<>>, panicked |-> FALSE]]
        /\ regPc' = [regPc EXCEPT ![t] = "RLock"]
        /\ UNCHANGED <<drivers, driversMu, regDone, bindCount, exceptReg>>

\* driversMu.RLock()
OpenRLock ==
    \E t \in Procs :
        /\ regPc[t] = "RLock"
        /\ canRLock(driversMu)
        /\ driversMu' = [driversMu EXCEPT !.readers = @ \cup {t}]
        /\ regPc' = [regPc EXCEPT ![t] = "lookup"]
        /\ UNCHANGED <<drivers, regCall, regDone, bindCount, exceptReg>>

\* driver, ok := drivers[name]
OpenLookup ==
    \E t \in Procs :
        /\ regPc[t] = "lookup"
        /\ regCall' = [regCall EXCEPT ![t] =
                          [@ EXCEPT !.driver = drivers[regCall[t].name],
                                    !.before = <<drivers[regCall[t].name]>>]]
        /\ regPc' = [regPc EXCEPT ![t] = "RUnlock"]
        /\ UNCHANGED <<drivers, driversMu, regDone, bindCount, exceptReg>>

\* driversMu.RUnlock()
OpenRUnlock ==
    \E t \in Procs :
        /\ regPc[t] = "RUnlock"
        /\ driversMu' = [driversMu EXCEPT !.readers = @ \ {t}]
        /\ regPc' = [regPc EXCEPT ![t] = "return"]
        /\ UNCHANGED <<drivers, regCall, regDone, bindCount, exceptReg>>

\* if !ok { return nil, error }; return driver.Open(address)
OpenReturn ==
    \E t \in Procs :
        /\ regPc[t] = "return"
        /\ LET ok == regCall[t].driver # <<>>
           IN regDone' = [regDone EXCEPT ![t] =
                             <<[op |-> "Open", name |-> regCall[t].name,
                                driver |-> <<>>,
                                before |-> regCall[t].before[1],
                                after |-> drivers[regCall[t].name],
                                outcome |-> IF ok THEN "opened" ELSE "error",
                                invoked |-> IF ok THEN regCall[t].driver
                                            ELSE <<>>]>>]
        /\ regPc' = [regPc EXCEPT ![t] = "idle"]
        /\ UNCHANGED <<drivers, driversMu, regCall, bindCount, exceptReg>>

(***************************************************************************)
(* mainCLI, src/cmd/ptouchgo/main.go 36-145, from the flags to the return. *)
(* It drives the Serial operations above on the stream it opened; wire and *)
(* TapeWidthMM are that Serial's.                                          *)
(***************************************************************************)
MainTapeWidths == TapeWidths \cup {5}
MainRasterLines == {1, 100}

\* A slip: Reset sends initialize whatever became of clear-buffer.
resetAlwaysInitialize(w, f1, f2) ==
    connWrite(connWrite(w, "ClearBuffer", 0, make(100), f1),
              "Initialize", 0, cmdInitialize, f2)

\* Serial.Reset: ClearBuffer, and Initialize only when that returned nil.
\* f1 and f2 say whether the first and the second Write fail.
reset(w, f1, f2) ==
    IF f1 THEN connWrite(w, "ClearBuffer", 0, make(100), TRUE)
    ELSE connWrite(connWrite(w, "ClearBuffer", 0, make(100), FALSE),
                   "Initialize", 0, cmdInitialize, f2)

InitMain ==
    /\ pcMain = "prepare"
    /\ mainIn \in [tapeWidth : MainTapeWidths, dryRunMode : BOOLEAN,
                   imageOK : BOOLEAN, rasterLines : MainRasterLines,
                   packedData : ImageSamples]
    /\ mainErr = FALSE
    /\ serConn = "none"
    /\ TapeWidthMM = 0
    /\ wire = <<>>

IdleMain ==
    /\ pcMain = "idle"
    /\ mainIn = <<>>
    /\ mainErr = FALSE
    /\ serConn = "none"

\* Lines 38-81: the flag checks, LoadPNGImage and CompressImage; each
\* failure returns before the printer is opened.
MainPrepare ==
    /\ pcMain = "prepare"
    /\ IF mainIn.tapeWidth \in TapeWidths /\ mainIn.imageOK
       THEN pcMain' = "Open" /\ mainErr' = FALSE
       ELSE pcMain' = "done" /\ mainErr' = TRUE
    /\ UNCHANGED <<mainIn, serConn, serialVars, exceptMain>>

\* Lines 87-91: ser, err = ptouchgo.Open(...); defer ser.Close()
MainOpen ==
    /\ pcMain = "Open"
    /\ \E failed \in BOOLEAN :
          IF failed
          THEN /\ pcMain' = "done" /\ mainErr' = TRUE
               /\ UNCHANGED <<serConn, TapeWidthMM>>
          ELSE /\ pcMain' = "Reset" /\ mainErr' = FALSE
               /\ serConn' = "open"
               /\ TapeWidthMM' = mainIn.tapeWidth
    /\ UNCHANGED <<mainIn, wire, exceptMain>>

MainReset ==
    /\ pcMain = "Reset"
    /\ \E f1 \in BOOLEAN, f2 \in BOOLEAN :
          /\ wire' = reset(wire, f1, f2)
          /\ mainErr' = wire'[Len(wire')].ret
          /\ pcMain' = IF mainErr' THEN "deferred" ELSE "SetRasterMode"
    /\ UNCHANGED <<mainIn, serConn, TapeWidthMM, exceptMain>>

MainSetRasterMode ==
    /\ pcMain = "SetRasterMode"
    /\ \E failed \in BOOLEAN :
          /\ wire' = connWrite(wire, "SetRasterMode", 0, cmdSetRasterMode,
                               failed)
          /\ mainErr' = failed
          /\ pcMain' = IF failed THEN "deferred" ELSE "SetPrintProperty"
    /\ UNCHANGED <<mainIn, serConn, TapeWidthMM, exceptMain>>

MainSetPrintProperty ==
    /\ pcMain = "SetPrintProperty"
    /\ \E failed \in BOOLEAN :
          /\ wire' = connWrite(wire, "SetPrintProperty", mainIn.rasterLines,
                               printPropertyData(mainIn.rasterLines), failed)
          /\ mainErr' = failed
          /\ pcMain' = IF failed THEN "deferred" ELSE "SetPrintMode"
    /\ UNCHANGED <<mainIn, serConn, TapeWidthMM, exceptMain>>

\* ser.SetPrintMode(true, false)
MainSetPrintMode ==
    /\ pcMain = "SetPrintMode"
    /\ \E failed \in BOOLEAN :
          /\ wire' = connWrite(wire, "SetPrintMode",
                               [autocut |-> TRUE, mirror |-> FALSE],
                               cmdSetPrintModePrefix
                               \o <<byte(printModeFlag(TRUE, FALSE))>>,
                               failed)
          /\ mainErr' = failed
          /\ pcMain' = IF failed THEN "deferred" ELSE "SetExtendedMode"
    /\ UNCHANGED <<mainIn, serConn, TapeWidthMM, exceptMain>>

\* ser.SetExtendedMode(false, true, false, ...): the call passes two more
\* arguments than the three the operation of conn.go takes.
MainSetExtendedMode ==
    /\ pcMain = "SetExtendedMode"
    /\ \E failed \in BOOLEAN :
          /\ wire' = connWrite(wire, "SetExtendedMode",
                               [twoColorPrinting |-> FALSE, cutAtEnd |-> TRUE,
                                highDefinitionPrinting |-> FALSE],
                               cmdSetExtendedModePrefix
                               \o <<byte(extendedModeFlag(FALSE, TRUE,
                                                          FALSE))>>,
                               failed)
          /\ mainErr' = failed
          /\ pcMain' = IF failed THEN "deferred" ELSE "SetFeedAmount"
    /\ UNCHANGED <<mainIn, serConn, TapeWidthMM, exceptMain>>

\* ser.SetFeedAmount(10)
MainSetFeedAmount ==
    /\ pcMain = "SetFeedAmount"
    /\ \E failed \in BOOLEAN :
          /\ wire' = connWrite(wire, "SetFeedAmount", 10,
                               feedAmountPayload(10), failed)
          /\ mainErr' = failed
          /\ pcMain' = IF failed THEN "deferred"
                       ELSE "SetCompressionModeEnabled"
    /\ UNCHANGED <<mainIn, serConn, TapeWidthMM, exceptMain>>

\* ser.SetCompressionModeEnabled(true)
MainSetCompressionModeEnabled ==
    /\ pcMain = "SetCompressionModeEnabled"
    /\ \E failed \in BOOLEAN :
          /\ wire' = connWrite(wire, "SetCompressionModeEnabled", TRUE,
                               compressionModePayload(TRUE), failed)
          /\ mainErr' = failed
          /\ pcMain' = IF failed THEN "deferred" ELSE "SendImage"
    /\ UNCHANGED <<mainIn, serConn, TapeWidthMM, exceptMain>>

\* if !*dryRunMode { err = ser.SendImage(packedData) ... }
MainSendImage ==
    /\ pcMain = "SendImage"
    /\ IF mainIn.dryRunMode
       THEN pcMain' = "PrintAndEject" /\ UNCHANGED <<wire, mainErr>>
       ELSE \E failed \in BOOLEAN :
               /\ wire' = connWrite(wire, "SendImage",
                                    Len(mainIn.packedData),
                                    mainIn.packedData, failed)
               /\ mainErr' = failed
               /\ pcMain' = IF failed THEN "deferred" ELSE "PrintAndEject"
    /\ UNCHANGED <<mainIn, serConn, TapeWidthMM, exceptMain>>

\* if !*dryRunMode { err = ser.PrintAndEject() ... }
MainPrintAndEject ==
    /\ pcMain = "PrintAndEject"
    /\ IF mainIn.dryRunMode
       THEN pcMain' = "FinalReset" /\ UNCHANGED <<wire, mainErr>>
       ELSE \E failed \in BOOLEAN :
               /\ wire' = connWrite(wire, "PrintAndEject", 0,
                                    cmdPrintAndEject, failed)
               /\ mainErr' = failed
               /\ pcMain' = IF failed THEN "deferred" ELSE "FinalReset"
    /\ UNCHANGED <<mainIn, serConn, TapeWidthMM, exceptMain>>

\* ser.Reset(); return nil -- the result of this Reset is dropped.
MainFinalReset ==
    /\ pcMain = "FinalReset"
    /\ \E f1 \in BOOLEAN, f2 \in BOOLEAN : wire' = reset(wire, f1, f2)
    /\ mainErr' = FALSE
    /\ pcMain' = "deferred"
    /\ UNCHANGED <<mainIn, serConn, TapeWidthMM, exceptMain>>

\* The deferred ser.Close() runs on every return after line 91; its result
\* is dropped.
MainDeferredClose ==
    /\ pcMain = "deferred"
    /\ \E failed \in BOOLEAN : wire' = connClose(wire, failed)
    /\ serConn' = "closed"
    /\ pcMain' = "done"
    /\ UNCHANGED <<mainIn, mainErr, TapeWidthMM, exceptMain>>

(***************************************************************************)
(* USBSerial, src/conn/usb/conn.go 22-31 and 130-152.  OpenUSB returns a   *)
(* pointer to one USBSerial, and goroutines 1..MaxThreads call Write and   *)
(* Read on it.  Both methods have the value receiver (s USBSerial): a call *)
(* copies the struct, its mutexes included, and locks and unlocks the      *)
(* mutex of its copy.                                                      *)
(***************************************************************************)
MaxThreads == 3

Threads == 1..MaxThreads

InitUSB ==
    /\ usbS = [writem |-> "unlocked", readm |-> "unlocked"]
    /\ usbPc = [t \in Threads |-> "idle"]
    /\ usbRecv = [t \in Threads |-> <<>>]

IdleUSB ==
    /\ usbS = <<>>
    /\ usbPc = <<>>
    /\ usbRecv = <<>>

\* The mutex a call uses: writem of its receiver in Write, readm in Read.
recvMutex(s, op) == IF op = "Write" THEN s.writem ELSE s.readm

\* A goroutine calls Write: the receiver s becomes a copy of the struct.
USBWriteCall ==
    \E t \in Threads :
        /\ usbPc[t] = "idle"
        /\ usbRecv' = [usbRecv EXCEPT ![t] = <<[op |-> "Write", s |-> usbS]>>]
        /\ usbPc' = [usbPc EXCEPT ![t] = "Lock"]
        /\ UNCHANGED <<usbS, exceptUSB>>

\* A goroutine calls Read: the receiver s becomes a copy of the struct.
USBReadCall ==
    \E t \in Threads :
        /\ usbPc[t] = "idle"
        /\ usbRecv' = [usbRecv EXCEPT ![t] = <<[op |-> "Read", s |-> usbS]>>]
        /\ usbPc' = [usbPc EXCEPT ![t] = "Lock"]
        /\ UNCHANGED <<usbS, exceptUSB>>

\* s.writem.Lock() / s.readm.Lock() on the receiver; the call then enters
\* s.output.Write(b) / s.input.Read(b).
USBLock ==
    \E t \in Threads :
        /\ usbPc[t] = "Lock"
        /\ recvMutex(usbRecv[t][1].s, usbRecv[t][1].op) = "unlocked"
        /\ usbRecv' = [usbRecv EXCEPT ![t] =
                          <<[op |-> usbRecv[t][1].op,
                             s |-> IF usbRecv[t][1].op = "Write"
                                   THEN [usbRecv[t][1].s EXCEPT
                                            !.writem = "locked"]
                                   ELSE [usbRecv[t][1].s EXCEPT
                                            !.readm = "locked"]]>>]
        /\ usbPc' = [usbPc EXCEPT ![t] = "endpoint"]
        /\ UNCHANGED <<usbS, exceptUSB>>

\* The endpoint call returns, the deferred Unlock runs on the receiver, and
\* the receiver goes away with the call.
USBReturn ==
    \E t \in Threads :
        /\ usbPc[t] = "endpoint"
        /\ usbRecv' = [usbRecv EXCEPT ![t] = <<>>]
        /\ usbPc' = [usbPc EXCEPT ![t] = "idle"]
        /\ UNCHANGED <<usbS, exceptUSB>>

(***************************************************************************)
(* OpenUSB, src/conn/usb/conn.go 37-128, one action per statement that can *)
(* fail.  A string is the sequence of its characters.  The three resources *)
(* are the gousb context (ctx), the device (dev) and the claimed default   *)
(* interface, which done releases.                                         *)
(***************************************************************************)
productIDPTP700 == 8289                          \* 0x2061
productIDPTP750W == 8290                         \* 0x2062
productIDPTP710BT == 8367                        \* 0x20af

\* The addresses drawn: empty, without the 0x prefix, 0x alone, one byte,
\* two bytes in either case, three bytes, an odd number of digits, and a
\* character that is no hex digit.
Addresses ==
    { <<>>,
      <<"2", "0", "a", "f">>,
      <<"0", "x">>,
      <<"0", "x", "2", "0">>,
      <<"0", "x", "2", "0", "a", "f">>,
      <<"0", "x", "2", "0", "A", "F">>,
      <<"0", "x", "2", "0", "6", "1", "0", "0">>,
      <<"0", "x", "2", "0", "a">>,
      <<"0", "x", "2", "0", "z", "f">> }

\* strings.HasPrefix(address, "0x")
HasPrefix0x(a) == Len(a) >= 2 /\ a[1] = "0" /\ a[2] = "x"

LowerHex ==
    <<"0", "1", "2", "3", "4", "5", "6", "7", "8", "9",
      "a", "b", "c", "d", "e", "f">>
UpperHex ==
    <<"0", "1", "2", "3", "4", "5", "6", "7", "8", "9",
      "A", "B", "C", "D", "E", "F">>

IsHexChar(c) == \E i \in 1..16 : LowerHex[i] = c \/ UpperHex[i] = c

hexValue(c) == (CHOOSE i \in 1..16 : LowerHex[i] = c \/ UpperHex[i] = c) - 1

\* hex.DecodeString(h): an error for an odd number of characters or for a
\* character that is no hex digit, else one byte per two characters.
hexDecodeString(h) ==
    IF Len(h) % 2 # 0 \/ \E k \in 1..Len(h) : ~IsHexChar(h[k])
    THEN [ok |-> FALSE, bytes |-> <<>>]
    ELSE [ok |-> TRUE,
          bytes |-> [k \in 1..(Len(h) \div 2) |->
                        16 * hexValue(h[2 * k - 1]) + hexValue(h[2 * k])]]

\* binary.BigEndian.Uint16(b): it indexes b[1] and b[0], so it panics on a
\* slice of fewer than two bytes.
Uint16Panics(b) == Len(b) < 2

Uint16(b) == b[1] * 256 + b[2]

InitOpen ==
    /\ address \in Addresses
    /\ pcOpenUSB = "NewContext"
    /\ usbRes = [ctx |-> "nil", dev |-> "nil", done |-> "nil"]
    /\ usbPid = 0
    /\ released = <<>>
    /\ openRet = <<>>

IdleOpen ==
    /\ address = <<>>
    /\ pcOpenUSB = "idle"
    /\ usbRes = [ctx |-> "nil", dev |-> "nil", done |-> "nil"]
    /\ usbPid = 0
    /\ released = <<>>
    /\ openRet = <<>>

\* ctx = gousb.NewContext(); ctx.Debug(10)
OpenUSBNewContext ==
    /\ pcOpenUSB = "NewContext"
    /\ usbRes' = [usbRes EXCEPT !.ctx = "open"]
    /\ pcOpenUSB' = "address"
    /\ UNCHANGED <<address, usbPid, released, openRet, exceptOpen>>

\* Lines 51-61: the prefix test, hex.DecodeString and
\* binary.BigEndian.Uint16.  A panic leaves the function at once: there is
\* no deferred call, so nothing is released.
OpenUSBAddress ==
    /\ pcOpenUSB = "address"
    /\ IF address = <<>>
       THEN pcOpenUSB' = "find" /\ UNCHANGED <<usbPid, openRet>>
       ELSE IF ~HasPrefix0x(address)
       THEN pcOpenUSB' = "handleError" /\ UNCHANGED <<usbPid, openRet>>
       ELSE LET productID ==
                    hexDecodeString(SubSeq(address, 3, Len(address)))
            IN IF ~productID.ok
               THEN pcOpenUSB' = "handleError" /\ UNCHANGED <<usbPid, openRet>>
               ELSE IF Uint16Panics(productID.bytes)
               THEN /\ pcOpenUSB' = "done"
                    /\ openRet' = <<[kind |-> "panic", res |-> usbRes]>>
                    /\ UNCHANGED usbPid
               ELSE /\ pcOpenUSB' = "OpenDevice"
                    /\ usbPid' = Uint16(productID.bytes)
                    /\ UNCHANGED openRet
    /\ UNCHANGED <<address, usbRes, released, exceptOpen>>

\* Lines 62-65 and 76-79: dev, err = ctx.OpenDeviceWithVIDPID(vendor, id).
\* It returns a device, or nil with an error, or nil without one when no
\* device matches; the last falls through to the dev == nil test.
OpenUSBOpenDevice ==
    /\ pcOpenUSB = "OpenDevice"
    /\ \E outcome \in {"device", "error", "none"} :
          IF outcome = "device"
          THEN /\ usbRes' = [usbRes EXCEPT !.dev = "open"]
               /\ pcOpenUSB' = "SetAutoDetach"
          ELSE /\ pcOpenUSB' = "handleError"
               /\ UNCHANGED usbRes
    /\ UNCHANGED <<address, usbPid, released, openRet, exceptOpen>>

\* Lines 66-79, the empty address: the three known products are tried in
\* turn, errors dropped, until one opens; found is the one that did, 0 for
\* none.
OpenUSBFindDevice ==
    /\ pcOpenUSB = "find"
    /\ \E found \in {productIDPTP750W, productIDPTP700, productIDPTP710BT, 0} :
          /\ usbPid' = found
          /\ IF found # 0
             THEN /\ usbRes' = [usbRes EXCEPT !.dev = "open"]
                  /\ pcOpenUSB' = "SetAutoDetach"
             ELSE /\ pcOpenUSB' = "handleError"
                  /\ UNCHANGED usbRes
    /\ UNCHANGED <<address, released, openRet, exceptOpen>>

\* err = dev.SetAutoDetach(true)
OpenUSBSetAutoDetach ==
    /\ pcOpenUSB = "SetAutoDetach"
    /\ \E failed \in BOOLEAN :
          pcOpenUSB' = IF failed THEN "handleError" ELSE "DefaultInterface"
    /\ UNCHANGED <<address, usbRes, usbPid, released, openRet, exceptOpen>>

\* usbif, done, err = dev.DefaultInterface(): on failure done stays nil.
OpenUSBDefaultInterface ==
    /\ pcOpenUSB = "DefaultInterface"
    /\ \E failed \in BOOLEAN :
          IF failed
          THEN pcOpenUSB' = "handleError" /\ UNCHANGED usbRes
          ELSE /\ pcOpenUSB' = "InEndpoint"
               /\ usbRes' = [usbRes EXCEPT !.done = "open"]
    /\ UNCHANGED <<address, usbPid, released, openRet, exceptOpen>>

\* input, err = usbif.InEndpoint(0x81)
OpenUSBInEndpoint ==
    /\ pcOpenUSB = "InEndpoint"
    /\ \E failed \in BOOLEAN :
          pcOpenUSB' = IF failed THEN "handleError" ELSE "OutEndpoint"
    /\ UNCHANGED <<address, usbRes, usbPid, released, openRet, exceptOpen>>

\* output, err = usbif.OutEndpoint(0x02); on success return &USBSerial{...}
OpenUSBOutEndpoint ==
    /\ pcOpenUSB = "OutEndpoint"
    /\ \E failed \in BOOLEAN :
          IF failed
          THEN pcOpenUSB' = "handleError" /\ UNCHANGED openRet
          ELSE /\ pcOpenUSB' = "done"
               /\ openRet' = <<[kind |-> "stream", res |-> usbRes]>>
    /\ UNCHANGED <<address, usbRes, usbPid, released, exceptOpen>>

\* handleError: if done != nil { done() }
releaseInterface(res, rel) ==
    IF res.done # "nil"
    THEN [res |-> [res EXCEPT !.done = "closed"],
          rel |-> Append(rel, "interface")]
    ELSE [res |-> res, rel |-> rel]

OpenUSBHandleError ==
    /\ pcOpenUSB = "handleError"
    /\ usbRes' = releaseInterface(usbRes, released).res
    /\ released' = releaseInterface(usbRes, released).rel
    /\ pcOpenUSB' = "closeDev"
    /\ UNCHANGED <<address, usbPid, openRet, exceptOpen>>

\* if dev != nil { dev.Close() }
OpenUSBCloseDev ==
    /\ pcOpenUSB = "closeDev"
    /\ IF usbRes.dev # "nil"
       THEN /\ usbRes' = [usbRes EXCEPT !.dev = "closed"]
            /\ released' = Append(released, "device")
       ELSE UNCHANGED <<usbRes, released>>
    /\ pcOpenUSB' = "closeCtx"
    /\ UNCHANGED <<address, usbPid, openRet, exceptOpen>>

\* if ctx != nil { ctx.Close() }; return nil, err
OpenUSBCloseCtx ==
    /\ pcOpenUSB = "closeCtx"
    /\ IF usbRes.ctx # "nil"
       THEN /\ usbRes' = [usbRes EXCEPT !.ctx = "closed"]
            /\ released' = Append(released, "context")
       ELSE UNCHANGED <<usbRes, released>>
    /\ openRet' = <<[kind |-> "error", res |-> usbRes']>>
    /\ pcOpenUSB' = "done"
    /\ UNCHANGED <<address, usbPid, exceptOpen>>

(***************************************************************************)
(* The specifications: one per component, the others idle.                 *)
(***************************************************************************)
InitSpecPack == InitPack /\ IdleImage /\ IdleStatus /\ IdleSerial /\ IdleRaw /\ IdleReg /\ IdleMain /\ IdleUSB /\ IdleOpen
NextPack == AppendRun \/ AppendAlt \/ Pack
SpecPack == InitSpecPack /\ [][NextPack]_vars

InitSpecImage == IdlePack /\ InitImage /\ IdleStatus /\ IdleSerial /\ IdleRaw /\ IdleReg /\ IdleMain /\ IdleUSB /\ IdleOpen
NextImage == AppendData \/ CompressStart \/ CompressRow \/ CompressReturn
SpecImage == InitSpecImage /\ [][NextImage]_vars

InitSpecStatus == IdlePack /\ IdleImage /\ InitStatus /\ IdleSerial /\ IdleRaw /\ IdleReg /\ IdleMain /\ IdleUSB /\ IdleOpen
NextStatus == Poke \/ ParseStatus
SpecStatus == InitSpecStatus /\ [][NextStatus]_vars

InitSpecSerial == IdlePack /\ IdleImage /\ IdleStatus /\ InitSerial /\ IdleRaw /\ IdleReg /\ IdleMain /\ IdleUSB /\ IdleOpen
NextSerial == SetPrintProperty \/ SetFeedAmount
SpecSerial == InitSpecSerial /\ [][NextSerial]_vars

\* The two mode setters of a session.
InitSpecModes == IdlePack /\ IdleImage /\ IdleStatus /\ InitSerial /\ IdleRaw /\ IdleReg /\ IdleMain /\ IdleUSB /\ IdleOpen
NextModes == SetPrintMode \/ SetExtendedMode
SpecModes == InitSpecModes /\ [][NextModes]_vars

InitSpecSession == IdlePack /\ IdleImage /\ IdleStatus /\ InitSession /\ IdleRaw /\ IdleReg /\ IdleMain /\ IdleUSB /\ IdleOpen
NextSession ==
    \/ ClearBuffer \/ Initialize \/ RequestStatus \/ ReadStatus
    \/ SetRasterMode \/ SetNotificationMode \/ SetPrintProperty
    \/ SetPrintMode \/ SetExtendedMode \/ SetFeedAmount
    \/ SetAutocutPerPagesForPTP750W \/ SetCompressionModeEnabled
    \/ SendImage \/ SerialPrint \/ PrintAndEject \/ Close
SpecSession == InitSpecSession /\ [][NextSession]_vars

InitSpecRaw == IdlePack /\ IdleImage /\ IdleStatus /\ IdleSerial /\ InitRaw /\ IdleReg /\ IdleMain /\ IdleUSB /\ IdleOpen
NextRaw == LoadRawImage
SpecRaw == InitSpecRaw /\ [][NextRaw]_vars

InitSpecReg ==
    /\ IdlePack /\ IdleImage /\ IdleStatus /\ IdleSerial /\ IdleRaw
    /\ InitReg /\ IdleMain /\ IdleUSB /\ IdleOpen
NextReg ==
    \/ RegisterCall \/ RegisterLock \/ RegisterCheck \/ RegisterAssign
    \/ RegisterUnlock
    \/ OpenCall \/ OpenRLock \/ OpenLookup \/ OpenRUnlock \/ OpenReturn
SpecReg == InitSpecReg /\ [][NextReg]_vars

InitSpecMain ==
    /\ IdlePack /\ IdleImage /\ IdleStatus /\ IdleRaw /\ IdleReg
    /\ InitMain /\ IdleUSB /\ IdleOpen
NextMain ==
    \/ MainPrepare \/ MainOpen \/ MainReset \/ MainSetRasterMode
    \/ MainSetPrintProperty \/ MainSetPrintMode \/ MainSetExtendedMode
    \/ MainSetFeedAmount \/ MainSetCompressionModeEnabled
    \/ MainSendImage \/ MainPrintAndEject \/ MainFinalReset
    \/ MainDeferredClose
SpecMain == InitSpecMain /\ [][NextMain]_vars

InitSpecUSB ==
    /\ IdlePack /\ IdleImage /\ IdleStatus /\ IdleSerial /\ IdleRaw
    /\ IdleReg /\ IdleMain /\ InitUSB /\ IdleOpen
NextUSB == USBWriteCall \/ USBReadCall \/ USBLock \/ USBReturn
SpecUSB == InitSpecUSB /\ [][NextUSB]_vars

InitSpecOpen ==
    /\ IdlePack /\ IdleImage /\ IdleStatus /\ IdleSerial /\ IdleRaw
    /\ IdleReg /\ IdleMain /\ IdleUSB /\ InitOpen
NextOpen ==
    \/ OpenUSBNewContext \/ OpenUSBAddress \/ OpenUSBOpenDevice
    \/ OpenUSBFindDevice \/ OpenUSBSetAutoDetach \/ OpenUSBDefaultInterface
    \/ OpenUSBInEndpoint \/ OpenUSBOutEndpoint \/ OpenUSBHandleError
    \/ OpenUSBCloseDev \/ OpenUSBCloseCtx
SpecOpen == InitSpecOpen /\ [][NextOpen]_vars

(***************************************************************************)
(* The decoder the control-byte rules describe: a control byte c in 0..127 *)
(* is followed by c+1 literal bytes, c in 129..255 by one byte that stands *)
(* for 257-c repeats, and 128 is reserved.                                 *)
(***************************************************************************)
BadGroup == [kind |-> "bad", n |-> 0, bytes |-> <<>>]

\* The groups of the compressed bytes s from position p on.
RECURSIVE ParseGroups(_, _)
ParseGroups(s, p) ==
    IF p > Len(s) THEN <<>>
    ELSE LET c == s[p]
         IN IF c <= 127
            THEN IF p + c + 1 > Len(s)
                 THEN <<BadGroup>>
                 ELSE <<[kind |-> "literal", n |-> c + 1,
                         bytes |-> SubSeq(s, p + 1, p + c + 1)]>>
                      \o ParseGroups(s, p + c + 2)
            ELSE IF c >= 129
            THEN IF p + 1 > Len(s)
                 THEN <<BadGroup>>
                 ELSE <<[kind |-> "repeat", n |-> 257 - c,
                         bytes |-> <<s[p + 1]>>]>>
                      \o ParseGroups(s, p + 2)
            ELSE <<BadGroup>>

Groups(s) == ParseGroups(s, 1)

WellFormed(s) == \A k \in 1..Len(Groups(s)) : Groups(s)[k].kind # "bad"

GroupBytes(g) ==
    IF g.kind = "literal" THEN g.bytes
    ELSE IF g.kind = "repeat" THEN [k \in 1..g.n |-> g.bytes[1]]
    ELSE <<>>

RECURSIVE Flatten(_, _)
Flatten(gs, k) ==
    IF k > Len(gs) THEN <<>> ELSE GroupBytes(gs[k]) \o Flatten(gs, k + 1)

Decode(s) == Flatten(Groups(s), 1)

RECURSIVE SumN(_, _)
SumN(gs, k) == IF k > Len(gs) THEN 0 ELSE gs[k].n + SumN(gs, k + 1)

IsUniform(s) == \A k \in 1..Len(s) : s[k] = s[1]
NoAdjacentEqual(s) == \A k \in 1..(Len(s) - 1) : s[k] # s[k + 1]

\* C1: decoding packBits(b) by the control-byte rules gives back b, for every
\* input b: the empty one, short ones and ones longer than 127 bytes.
C1_RoundTrip ==
    pcPack = "done" => WellFormed(packed) /\ Decode(packed) = input

\* C1's case: an input longer than 127 bytes, holding a repeat run and a
\* literal run, was packed and decodes to itself.
C1_Witness ==
    /\ pcPack = "done"
    /\ Len(input) > 127
    /\ \E k \in 1..Len(Groups(packed)) : Groups(packed)[k].kind = "repeat"
    /\ \E k \in 1..Len(Groups(packed)) : Groups(packed)[k].kind = "literal"
    /\ Decode(packed) = input

\* C2: every group packBits emits respects the protocol limit of 127: a
\* literal group carries 1..127 raw bytes, a repeat group stands for at most
\* 127 repeats, however the run ends.
C2_GroupLimit ==
    pcPack = "done" =>
        \A k \in 1..Len(Groups(packed)) :
            /\ Groups(packed)[k].kind # "bad"
            /\ Groups(packed)[k].n >= 1
            /\ Groups(packed)[k].n <= 127

\* C3: n >= 2 identical bytes v pack into repeat groups of v only, whose
\* counts sum to n, every group but the last with count 127; 200 identical
\* bytes give the two groups 127 and 73.
C3_UniformRuns ==
    (pcPack = "done" /\ Len(input) >= 2 /\ IsUniform(input)) =>
        LET gs == Groups(packed)
        IN /\ \A k \in 1..Len(gs) :
                 gs[k].kind = "repeat" /\ gs[k].bytes = <<input[1]>>
           /\ SumN(gs, 1) = Len(input)
           /\ \A k \in 1..(Len(gs) - 1) : gs[k].n = 127
           /\ Len(input) = 200 =>
                 Len(gs) = 2 /\ gs[1].n = 127 /\ gs[2].n = 73

\* C3's case: 200 identical bytes were packed.
C3_Witness ==
    /\ pcPack = "done"
    /\ Len(input) = 200
    /\ IsUniform(input)
    /\ Len(Groups(packed)) = 2

\* C4: an input of 1..127 bytes with no two adjacent bytes equal packs into
\* one literal group: the control byte L-1, then the L bytes unchanged.
C4_SingleLiteral ==
    (pcPack = "done" /\ Len(input) >= 1 /\ Len(input) <= 127
       /\ NoAdjacentEqual(input)) =>
        packed = <<Len(input) - 1>> \o input

\* C4's case: an alternating input of exactly 127 bytes was packed.
C4_Witness ==
    /\ pcPack = "done"
    /\ Len(input) = 127
    /\ NoAdjacentEqual(input)
    /\ packed[1] = 126

\* The stream the raster framing is claimed to build: per row of width w the
\* marker 0x77, the compression-mode byte 0x02, the row's byte width and the
\* packBits-compressed row.
RECURSIVE CompressedFrames(_, _)
CompressedFrames(d, w) ==
    IF Len(d) = 0 THEN <<>>
    ELSE LET n == Min(w, Len(d))
         IN <<119, 2, w % 256>> \o packBits(SubSeq(d, 1, n))
            \o CompressedFrames(SubSeq(d, n + 1, Len(d)), w)

\* C5: the stream CompressImage returns holds one frame per raster row, in
\* row order, each frame being 0x77, the compression-mode byte, the row's
\* byte width and the packBits-compressed bytes of the row.
C5_CompressedFrames ==
    pcImg = "done" => dataBuf = CompressedFrames(data, bytesWidth)

Zeros(n) == [k \in 1..n |-> 0]

\* C6: parseStatus fails and returns no Status exactly when its input is not
\* 32 bytes long; on 32 zero bytes the status type is Reply (0) and the
\* battery is Full (0).
C6_FrameLength ==
    statusRes # <<>> =>
        LET r == statusRes[1]
        IN /\ Len(statusIn) # 32 => (r.err # <<>> /\ r.status = <<>>)
           /\ Len(statusIn) = 32 => (r.err = <<>> /\ r.status # <<>>)
           /\ statusIn = Zeros(32) =>
                 /\ statusTypeReply = 0
                 /\ batteryFull = 0
                 /\ r.status # <<>>
                 /\ r.status[1].Type = statusTypeReply
                 /\ r.status[1].StatusType = statusTypeReply
                 /\ r.status[1].Battery = batteryFull

\* C6's case: a 33-byte input was parsed and refused.
C6_Witness ==
    /\ statusRes # <<>>
    /\ Len(statusIn) = 33
    /\ statusRes[1].err # <<>>

\* The offsets of the status frame as the interface table gives them, by the
\* field of Status that holds each.
FieldOffsets ==
    [Model |-> 4, Battery |-> 6, Error1 |-> 8, Error2 |-> 9, TapeWidth |-> 10,
     MediaType |-> 11, Mode |-> 15, TapeLength |-> 17, Type |-> 18,
     StatusType |-> 18, PhaseType |-> 19, Phase |-> 20, Notification |-> 22,
     TapeColor |-> 24, FontColor |-> 25]

FieldOffsetSet == {FieldOffsets[f] : f \in DOMAIN FieldOffsets}

\* C7: for a 32-byte frame every Status field is the byte at its fixed
\* offset as a number 0..255, documented code or not, and a byte at any
\* other offset does not change the result.
C7_FieldsAtOffsets ==
    (statusRes # <<>> /\ Len(statusIn) = 32) =>
        /\ statusRes[1].status # <<>>
        /\ LET st == statusRes[1].status[1]
           IN /\ DOMAIN st = DOMAIN FieldOffsets
              /\ \A f \in DOMAIN FieldOffsets :
                    /\ st[f] = statusIn[FieldOffsets[f] + 1]
                    /\ st[f] \in 0..255
              /\ \A k \in 1..32, v \in PokeVals \cup {0} :
                    (k - 1) \notin FieldOffsetSet =>
                        parseStatus([statusIn EXCEPT ![k] = v]).status = <<st>>

\* C7's case: a frame with the undocumented battery code 255 and a non-zero
\* byte at offset 0, which belongs to no field, was parsed.
C7_Witness ==
    /\ statusRes # <<>>
    /\ Len(statusIn) = 32
    /\ statusIn[7] = 255
    /\ statusIn[1] = 255
    /\ statusRes[1].status # <<>>
    /\ statusRes[1].status[1].Battery = 255

\* C8: the four line-count bytes SetPrintProperty writes for the count r are
\* r mod 256, (r div 256) mod 256, (r div 65536) mod 256, r div 16777216,
\* least-significant first; r = 600 gives 58 02 00 00.
C8_LineCountBytes ==
    \A k \in 1..Len(wire) :
        wire[k].op = "SetPrintProperty" =>
            LET r == wire[k].arg
                p == wire[k].payload
            IN /\ Len(p) >= 11
               /\ p[8] = r % 256
               /\ p[9] = (r \div 256) % 256
               /\ p[10] = (r \div 65536) % 256
               /\ p[11] = r \div 16777216
               /\ p[8] + 256 * p[9] + 65536 * p[10] + 16777216 * p[11] = r
               /\ r = 600 => SubSeq(p, 8, 11) = <<88, 2, 0, 0>>

\* C8's case: the count 0x01020304, whose four bytes all differ, was written.
C8_Witness ==
    \E k \in 1..Len(wire) :
        /\ wire[k].op = "SetPrintProperty"
        /\ wire[k].arg = 16909060
        /\ SubSeq(wire[k].payload, 8, 11) = <<4, 3, 2, 1>>

Bit(n, b) == (n \div (2 ^ b)) % 2

C10_FeedAmountBytes ==
    \A k \in 1..Len(wire) :
        wire[k].op = "SetFeedAmount" =>
            LET a == wire[k].arg
                p == wire[k].payload
            IN /\ p = <<27, 105, 100, a % 256, a \div 256>>
               /\ a = 300 => (p[4] = 44 /\ p[5] = 1)

\* C10's case: the feed amount 300 was written.
C10_Witness ==
    \E k \in 1..Len(wire) :
        /\ wire[k].op = "SetFeedAmount"
        /\ wire[k].arg = 300
        /\ Len(wire[k].payload) = 5

(***************************************************************************)
(* C11: in the set-print-mode frame (autocut, mirror) and the              *)
(* set-extended-mode frame (two-colour, cut-at-end, high-definition) every *)
(* boolean option has its own bit of the one flag byte after the prefix:   *)
(* the bit is 1 exactly when the option is true, different options have    *)
(* different bits, and every other bit is 0.                               *)
(***************************************************************************)
BitOf(on, b) == IF on THEN 2 ^ b ELSE 0

C11_OptionBits ==
    /\ \E ba \in 0..7, bm \in 0..7 :
          /\ ba # bm
          /\ \A k \in 1..Len(wire) :
                wire[k].op = "SetPrintMode" =>
                   wire[k].payload =
                      cmdSetPrintModePrefix
                      \o <<BitOf(wire[k].arg.autocut, ba)
                           + BitOf(wire[k].arg.mirror, bm)>>
    /\ \E bt \in 0..7, bc \in 0..7, bh \in 0..7 :
          /\ bt # bc /\ bt # bh /\ bc # bh
          /\ \A k \in 1..Len(wire) :
                wire[k].op = "SetExtendedMode" =>
                   wire[k].payload =
                      cmdSetExtendedModePrefix
                      \o <<BitOf(wire[k].arg.twoColorPrinting, bt)
                           + BitOf(wire[k].arg.cutAtEnd, bc)
                           + BitOf(wire[k].arg.highDefinitionPrinting, bh)>>

(***************************************************************************)
(* C12: against the expected raster width 720, an image of width 720 takes *)
(* the horizontal-flip path (also when its height is 720 too), otherwise   *)
(* an image of height 720 is transposed, and otherwise the load fails with *)
(* an error naming 720 and the actual size and no buffer is returned; so   *)
(* 720x100 is flipped and 100x720 is transposed.                           *)
(***************************************************************************)
C12_Orientation ==
    rawRes # <<>> =>
       LET r == rawRes[1]
       IN IF rawP.X = 720
          THEN r.err = <<>> /\ r.canvas = "FlipH"
               /\ Len(r.data) = r.bytesWidth * rawP.Y
          ELSE IF rawP.Y = 720
          THEN r.err = <<>> /\ r.canvas = "Transpose"
               /\ Len(r.data) = r.bytesWidth * rawP.X
          ELSE /\ r.data = <<>>
               /\ r.err # <<>>
               /\ r.err[1].ws = 720
               /\ r.err[1].X = rawP.X
               /\ r.err[1].Y = rawP.Y

C12_Witness ==
    /\ rawRes # <<>>
    /\ rawP.X = 720
    /\ rawP.Y = 720
    /\ rawRes[1].canvas = "FlipH"
    /\ Len(rawRes[1].data) = 90 * 720

(***************************************************************************)
(* C13: the returned buffer has stride * height bytes, stride being        *)
(* ceil(width / 8) of the oriented image, and for every pixel (x, y) of    *)
(* the oriented image bit 7 - (x mod 8) of byte y * stride + (x div 8) is  *)
(* 1 exactly when the weighted luminance 55R + 182G + 18B over its full    *)
(* scale is at most 0.5.                                                   *)
(***************************************************************************)
Ceil8(n) == (n + 7) \div 8

LuminanceAtMostHalf(c) ==
    LET q == RGBA(c)
    IN (55 * q.r + 182 * q.g + 18 * q.b) * 2 <= 255 * 65535

C13_PixelBits ==
    (rawRes # <<>> /\ rawRes[1].err = <<>>) =>
       LET r == rawRes[1]
           size == canvasSize(rawP, r.canvas)
           stride == Ceil8(size.X)
       IN /\ r.bytesWidth = stride
          /\ Len(r.data) = stride * size.Y
          /\ \A y \in 0..(size.Y - 1), x \in 0..(size.X - 1) :
                (Bit(r.data[y * stride + (x \div 8) + 1], 7 - (x % 8)) = 1)
                <=> LuminanceAtMostHalf(canvasAt(rawP, r.canvas, x, y))

C13_Witness ==
    /\ rawRes # <<>>
    /\ rawRes[1].err = <<>>
    /\ rawP.pat = "mixed"
    /\ rawP.Y = 2
    /\ \E k \in 1..Len(rawRes[1].data) : rawRes[1].data[k] \notin {0, 255}

(***************************************************************************)
(* C14: an all-black 8x8 image is accepted and every byte of its buffer is *)
(* 0xFF, and an all-white 8x8 image is accepted and every byte of its      *)
(* buffer is 0x00: the expected raster width follows the tape geometry     *)
(* supplied and is not a fixed number.                                     *)
(***************************************************************************)
C14_SmallImage ==
    (rawRes # <<>> /\ rawP.X = 8 /\ rawP.Y = 8
     /\ rawP.pat \in {"black", "white"}) =>
       /\ rawRes[1].err = <<>>
       /\ rawRes[1].data # <<>>
       /\ \A k \in 1..Len(rawRes[1].data) :
             rawRes[1].data[k] = IF rawP.pat = "black" THEN 255 ELSE 0

(***************************************************************************)
(* C15: whenever the stream call made by an operation of a session (a      *)
(* Write, the Read of ReadStatus, the Close) returns an error, the         *)
(* operation returns an error to its caller; in particular a failed read   *)
(* is never reported as a parsed status.                                   *)
(***************************************************************************)
C15_ErrorsSurfaced ==
    \A k \in 1..Len(wire) :
        wire[k].err =>
           /\ wire[k].ret
           /\ wire[k].op = "ReadStatus" => wire[k].status = <<>>

(***************************************************************************)
(* C16: under every interleaving of concurrent Register and Open calls     *)
(* each name is bound at most once; a Register call for a name that is     *)
(* already bound, or with a nil driver, panics and leaves the binding as   *)
(* it was; a binding is never removed or replaced; and an Open for a name  *)
(* that is not bound returns an error and invokes no driver.               *)
(***************************************************************************)
C16_Calls ==
    /\ \A n \in DriverNames : bindCount[n] <= 1
    /\ \A t \in Procs :
          regDone[t] # <<>> =>
             LET d == regDone[t][1]
             IN /\ d.op = "Register" =>
                      IF d.driver = <<>> \/ d.before # <<>>
                      THEN d.outcome = "panic" /\ d.after = d.before
                      ELSE d.outcome = "ok" /\ d.after = d.driver
                /\ (d.op = "Open" /\ d.before = <<>>) =>
                      d.outcome = "error" /\ d.invoked = <<>>

C16_BindingsKept ==
    \A n \in DriverNames : drivers[n] # <<>> => drivers'[n] = drivers[n]

C16_Registry == [](C16_Calls) /\ [][C16_BindingsKept]_vars

C16_Witness ==
    \E t \in Procs, u \in Procs :
        /\ regDone[t] # <<>> /\ regDone[u] # <<>>
        /\ regDone[t][1].op = "Register" /\ regDone[u][1].op = "Register"
        /\ regDone[t][1].name = "usb" /\ regDone[u][1].name = "usb"
        /\ regDone[t][1].driver # <<>> /\ regDone[u][1].driver # <<>>
        /\ regDone[t][1].outcome = "ok" /\ regDone[u][1].outcome = "panic"
        /\ drivers["usb"] = regDone[t][1].driver

(***************************************************************************)
(* C17: in a print run that is not dry the commands written are always a   *)
(* prefix of clear-buffer (100 zero bytes), initialize, set-raster-mode,   *)
(* set-print-property, set-print-mode, set-extended-mode, set-feed-amount, *)
(* set-compression-mode, raster data, print-and-eject, clear-buffer,       *)
(* initialize; only the last command written can be one whose write        *)
(* failed, and the run ends short of the twelfth command only after a      *)
(* failed write; the stream is not closed while the run goes on, and at    *)
(* the end it has been closed exactly once, by the last call made on it,   *)
(* exactly when it was opened.                                             *)
(***************************************************************************)
PrintSequence ==
    <<"ClearBuffer", "Initialize", "SetRasterMode", "SetPrintProperty",
      "SetPrintMode", "SetExtendedMode", "SetFeedAmount",
      "SetCompressionModeEnabled", "SendImage", "PrintAndEject",
      "ClearBuffer", "Initialize">>

Closes == {k \in 1..Len(wire) : wire[k].call = "Close"}

C17_CommandOrder ==
    (pcMain # "idle" /\ ~mainIn.dryRunMode) =>
       LET nW == Len(wire) - Cardinality(Closes)
       IN /\ nW <= Len(PrintSequence)
          /\ \A k \in 1..nW :
                /\ wire[k].call = "Write"
                /\ wire[k].op = PrintSequence[k]
                /\ wire[k].op = "ClearBuffer" => wire[k].payload = Zeros(100)
                /\ wire[k].op = "SendImage" =>
                      wire[k].payload = mainIn.packedData
                /\ wire[k].err => k = nW
          /\ pcMain # "done" => Closes = {} /\ serConn # "closed"
          /\ pcMain = "done" =>
                /\ serConn \in {"none", "closed"}
                /\ serConn = "none" => wire = <<>>
                /\ serConn = "closed" =>
                      /\ Closes = {Len(wire)}
                      /\ nW < Len(PrintSequence) => nW >= 1 /\ wire[nW].err

C17_Witness ==
    /\ pcMain = "done"
    /\ ~mainIn.dryRunMode
    /\ Len(wire) = 12
    /\ wire[11].op = "ClearBuffer" /\ wire[11].err
    /\ wire[12].call = "Close"
    /\ serConn = "closed"

(***************************************************************************)
(* C18: the tape-width byte of every set-print-property frame, the third   *)
(* byte after the prefix, is the tape width the caller gave when opening   *)
(* the session, for every supported width.                                 *)
(***************************************************************************)
C18_TapeWidthByte ==
    \A k \in 1..Len(wire) :
        wire[k].op = "SetPrintProperty" =>
           /\ Len(wire[k].payload) >= 6
           /\ wire[k].payload[6] = TapeWidthMM

(***************************************************************************)
(* C19: on one USB stream shared by several goroutines two Write calls are *)
(* never inside the output endpoint's write at the same time, and two Read *)
(* calls are never inside the input endpoint's read at the same time (a    *)
(* Read and a Write may be).                                               *)
(***************************************************************************)
InEndpointCall(op) ==
    {t \in Threads : usbPc[t] = "endpoint" /\ usbRecv[t][1].op = op}

C19_Serialized ==
    /\ Cardinality(InEndpointCall("Write")) <= 1
    /\ Cardinality(InEndpointCall("Read")) <= 1

(***************************************************************************)
(* C20: CompressImage terminates for every data and every bytesWidth >= 0, *)
(* having emitted at most one frame per bytesWidth-sized slice of data:    *)
(* every iteration of its loop moves i forward, towards len(data), and the *)
(* frames written never outnumber the slices (ceil(len(data)/bytesWidth)   *)
(* of them, and at most one per byte of data when bytesWidth is 0).        *)
(***************************************************************************)
SliceCount ==
    IF bytesWidth = 0 THEN Len(data)
    ELSE (Len(data) + bytesWidth - 1) \div bytesWidth

C20_FramesBounded ==
    pcImg \in {"loop", "done"} =>
       /\ loopCount <= SliceCount
       /\ Len(dataBuf) = 3 * loopCount + Min(imgI, Len(data))

C20_LoopAdvances ==
    (pcImg = "loop" /\ pcImg' = "loop") => imgI' > imgI

C20_Terminates == [](C20_FramesBounded) /\ [][C20_LoopAdvances]_vars

(***************************************************************************)
(* C21.  For every address and every outcome of the USB steps, OpenUSB     *)
(* ends in one of two ways only: it returns a stream with the context, the *)
(* device and the interface all held and nothing released, or it returns   *)
(* an error and no stream after releasing what it had acquired, the        *)
(* interface first if claimed, then the device if opened, then the         *)
(* context.                                                                *)
(***************************************************************************)
ReleaseOrder == <<"interface", "device", "context">>

\* What each release closes.
HeldBy(r) ==
    IF r = "interface" THEN usbRes.done
    ELSE IF r = "device" THEN usbRes.dev
    ELSE usbRes.ctx

ReleasedInOrder ==
    LET acquired(r) == HeldBy(r) # "nil"
    IN /\ released = SelectSeq(ReleaseOrder, acquired)
       /\ \A k \in 1..3 : HeldBy(ReleaseOrder[k]) # "open"

C21_OpenUSBOutcome ==
    pcOpenUSB = "done" =>
        \/ /\ openRet[1].kind = "stream"
           /\ released = <<>>
           /\ \A k \in 1..3 : HeldBy(ReleaseOrder[k]) = "open"
        \/ /\ openRet[1].kind = "error"
           /\ ReleasedInOrder

====
